---- MODULE Spec2Model ----
(***************************************************************************)
(* Model of resource_pool.py: Pool (a bounded queue.Queue filled at        *)
(* construction) and LazyPool (a list, a created counter and a             *)
(* threading.Condition).                                                   *)
(*                                                                         *)
(* A thread of the model is one caller with at most one lease.  The pool   *)
(* code never looks at who calls it, so a caller holding two resources     *)
(* behaves as two threads holding one each.  For the same reason whether a *)
(* get was called directly or from reserve is not stored while the get is  *)
(* pending: it only decides where the caller continues once get returns,   *)
(* and is chosen there (parameter sc).                                     *)
(*                                                                         *)
(* The condition variable is modelled as CPython implements it: wait()     *)
(* appends a waiter to _waiters and releases the lock; notify() releases   *)
(* the first waiter of _waiters; a wait whose timeout expired stays in     *)
(* _waiters until it has re-acquired the lock.                             *)
(*                                                                         *)
(* Threads are 1..NThreads and 0 stands for "no thread"; resources are     *)
(* 1..instances, in the order factory() returned them, and 0 stands for    *)
(* "no resource".                                                          *)
(***************************************************************************)
EXTENDS Integers, Sequences, FiniteSets

NThreads == 3
MaxPoolSize == 2
MaxInstances == 3
Timeout == 2

Threads == 1..NThreads

VARIABLES
    kind,        \* "Pool" or "LazyPool": the class that was constructed
    pool_size,   \* _pool_size
    pool,        \* _pool: the idle resources (queue.Queue / list)
    used_size,   \* LazyPool._used_size (0 for Pool, which has no such field)
    lock,        \* the thread that owns the Condition's lock, or 0
    waiters,     \* Condition._waiters, in order of arrival
    pc,          \* where each thread is
    timed,       \* the pending get of the thread has a numeric timeout
    res,         \* the resource the thread holds, or 0
    result,      \* how the thread's last call ended
    instances,   \* number of factory() calls that returned
    solo,        \* <<t, n>>: t called get alone when len(pool) was n
    elapsed,     \* where time is kept: time the get with a timeout was blocked
    remaining    \* where time is kept: time left on the timer of its wait

vars == <<kind, pool_size, pool, used_size, lock, waiters, pc, timed, res,
          result, instances, solo, elapsed, remaining>>

InCall == {"waiting", "notified", "timedout", "factory"}
Leased == {"holding", "inblock"}

Lazy == kind = "LazyPool"

----------------------------------------------------------------------------
(* Construction *)

\* mutant: the constructor's loop stops one iteration early
Preloaded_short(n) == [i \in 1..(n - 1) |-> i]

\* the idle resources after n calls of self.put(factory())
Preloaded(n) == [i \in 1..n |-> i]

Pool_init(n) ==
    /\ kind = "Pool"
    /\ pool_size = n
    /\ pool = Preloaded(n)
    /\ used_size = 0
    /\ instances = n

LazyPool_init(n, min_instances) ==
    /\ kind = "LazyPool"
    /\ pool_size = n
    /\ pool = Preloaded(min_instances)
    /\ used_size = min_instances
    /\ instances = min_instances

Init ==
    /\ \E n \in 1..MaxPoolSize :
          \/ Pool_init(n)
          \/ \E m \in 0..(n - 1) : LazyPool_init(n, m)
    /\ lock = 0
    /\ waiters = <<>>
    /\ pc = [t \in Threads |-> "idle"]
    /\ timed = [t \in Threads |-> FALSE]
    /\ res = [t \in Threads |-> 0]
    /\ result = [t \in Threads |-> "none"]
    /\ solo = <<0, 0>>
    /\ elapsed = 0
    /\ remaining = 0

----------------------------------------------------------------------------
(* threading.Condition *)

\* notify(): the waiter it releases, if any
NotifyTarget == IF waiters = <<>> THEN 0 ELSE Head(waiters)

\* notify(): _waiters afterwards
NotifyWaiters == IF waiters = <<>> THEN waiters ELSE Tail(waiters)

\* mutant: notify() releases nobody
NotifyPc_nobody == pc

\* notify(): the released waiter's acquire succeeds if it is still blocked in
\* it; a waiter whose timed acquire already failed keeps gotit = False
NotifyPc ==
    IF NotifyTarget # 0 /\ pc[NotifyTarget] = "waiting"
    THEN [pc EXCEPT ![NotifyTarget] = "notified"]
    ELSE pc

\* wait(): self._waiters.remove(waiter) of a wait that timed out
RemoveWaiter(t) == SelectSeq(waiters, LAMBDA w : w # t)

----------------------------------------------------------------------------
(* What a caller observes: the idle count it saw when it called get with   *)
(* no other call pending, kept until another thread takes a step.          *)

Quiet(t) == \A u \in Threads \ {t} : pc[u] \notin InCall

SoloCall(t) == IF Quiet(t) THEN <<t, Len(pool)>> ELSE <<0, 0>>

SoloKeep(t) == IF solo[1] = t THEN solo ELSE <<0, 0>>

----------------------------------------------------------------------------
(* How a get call ends or suspends.  ws is _waiters once the caller's own  *)
(* finished wait, if any, has been cleaned up.                             *)

\* where the caller continues when get returned: in reserve's block (sc) or
\* after a direct call
After(sc) == IF sc THEN "inblock" ELSE "holding"

\* get returns resource r, leaving `rest` idle
Return(t, r, rest, sc, ws) ==
    /\ pool' = rest
    /\ res' = [res EXCEPT ![t] = r]
    /\ pc' = [pc EXCEPT ![t] = After(sc)]
    /\ result' = [result EXCEPT ![t] = "ok"]
    /\ timed' = [timed EXCEPT ![t] = FALSE]
    /\ waiters' = ws
    /\ UNCHANGED <<used_size, lock, instances>>

\* mutant: a wait that timed out is followed by another wait
Raise_retry(t, ws) ==
    /\ waiters' = Append(ws, t)
    /\ pc' = [pc EXCEPT ![t] = "waiting"]
    /\ UNCHANGED <<pool, res, used_size, lock, instances, timed, result>>

\* mutant: a get that times out gives back a slot of the created count
Raise_rollback(t, ws) ==
    /\ pc' = [pc EXCEPT ![t] = "idle"]
    /\ result' = [result EXCEPT ![t] = "PoolTimeout"]
    /\ timed' = [timed EXCEPT ![t] = FALSE]
    /\ waiters' = ws
    /\ used_size' = IF used_size > 0 THEN used_size - 1 ELSE 0
    /\ UNCHANGED <<pool, res, lock, instances>>

\* get raises PoolTimeout
Raise(t, ws) ==
    /\ pc' = [pc EXCEPT ![t] = "idle"]
    /\ result' = [result EXCEPT ![t] = "PoolTimeout"]
    /\ timed' = [timed EXCEPT ![t] = FALSE]
    /\ waiters' = ws
    /\ UNCHANGED <<pool, res, used_size, lock, instances>>

\* Condition.wait(timeout): append a waiter, release the lock, block
Wait(t, to, ws) ==
    /\ waiters' = Append(ws, t)
    /\ pc' = [pc EXCEPT ![t] = "waiting"]
    /\ timed' = [timed EXCEPT ![t] = to]
    /\ result' = [result EXCEPT ![t] = "none"]
    /\ UNCHANGED <<pool, res, used_size, lock, instances>>

\* mutant: the create branch counts a resource twice
Reserved_twice == used_size + 2

\* `self._used_size += 1`
Reserved == used_size + 1

\* LazyPool.get, create branch up to the call of factory(): the return
\* expression is evaluated inside `with self._cond`, so the lock stays held
Create(t, ws) ==
    /\ used_size' = Reserved
    /\ lock' = t
    /\ pc' = [pc EXCEPT ![t] = "factory"]
    /\ timed' = [timed EXCEPT ![t] = FALSE]
    /\ result' = [result EXCEPT ![t] = "none"]
    /\ waiters' = ws
    /\ UNCHANGED <<pool, res, instances>>

----------------------------------------------------------------------------
(* LazyPool.get *)

\* mutant: the create branch does not test the created count
LazyPool_room_always == TRUE

\* `self._used_size != self._pool_size`
LazyPool_room == used_size # pool_size

\* mutant: get takes the oldest idle resource
LazyPool_pop_first == Head(pool)

\* list.pop(): the element returned
LazyPool_pop == pool[Len(pool)]

\* list.pop(): the list afterwards
LazyPool_rest == SubSeq(pool, 1, Len(pool) - 1)

\* mutant: get creates a resource whenever the created count allows it
LazyPool_get_fresh(t, to, sc, ws) ==
    IF LazyPool_room
    THEN Create(t, ws)
    ELSE IF pool # <<>>
         THEN Return(t, LazyPool_pop, LazyPool_rest, sc, ws)
         ELSE Wait(t, to, ws)

\* mutant: get waits for a put whenever the idle list is empty
LazyPool_get_patient(t, to, sc, ws) ==
    IF pool # <<>>
    THEN Return(t, LazyPool_pop, LazyPool_rest, sc, ws)
    ELSE Wait(t, to, ws)

\* one evaluation of the while loop, with the lock held
LazyPool_get(t, to, sc, ws) ==
    IF pool # <<>>
    THEN Return(t, LazyPool_pop, LazyPool_rest, sc, ws)
    ELSE IF LazyPool_room
         THEN Create(t, ws)
         ELSE Wait(t, to, ws)

\* `if not self._cond.wait(timeout): raise PoolTimeout()`, once the wait has
\* re-acquired the lock
LazyPool_wake(t, sc) ==
    IF pc[t] = "timedout"
    THEN Raise(t, RemoveWaiter(t))
    ELSE LazyPool_get(t, timed[t], sc, waiters)

(* Pool.get: queue.Queue.get(timeout=timeout) *)

\* Queue._get(): popleft, the element returned
Queue_item == Head(pool)

\* mutant: the element returned stays in the queue
Queue_rest_kept == pool

\* Queue._get(): the queue afterwards
Queue_rest == Tail(pool)

\* one evaluation of Queue.get's loop; expired: remaining <= 0
Pool_get(t, to, sc, ws, expired) ==
    IF pool # <<>>
    THEN Return(t, Queue_item, Queue_rest, sc, ws)
    ELSE IF to /\ expired
         THEN Raise(t, ws)
         ELSE Wait(t, to, ws)

\* Queue.get after not_empty.wait returned: `remaining <= 0` holds when the
\* deadline has passed
Pool_wake(t, sc) ==
    Pool_get(t, timed[t], sc, RemoveWaiter(t), pc[t] = "timedout")

----------------------------------------------------------------------------
(* Steps of a get *)

\* the timeout a wait is started with.  LazyPool.get hands its `timeout`
\* argument to every self._cond.wait; Queue.get computes endtime once and
\* hands not_empty.wait what is left of it (remaining = endtime - time()).
Armed == IF Lazy THEN Timeout ELSE Timeout - elapsed

\* the timer after a step of t's get: set if the step started a wait with a
\* timeout, cleared if it ended a get that had one
Timer(t, left) ==
    IF pc'[t] = "waiting" /\ timed'[t]
    THEN left
    ELSE IF timed[t] THEN 0 ELSE remaining

\* the call of get, up to its return or its first wait
GetCall(t, to, sc) ==
    /\ pc[t] = "idle"
    /\ lock = 0
    /\ IF Lazy
       THEN LazyPool_get(t, to, sc, waiters)
       ELSE Pool_get(t, to, sc, waiters, FALSE)
    /\ solo' = SoloCall(t)
    /\ UNCHANGED <<kind, pool_size>>

\* pool.get(timeout=...), time not kept
Get(t, to) ==
    /\ GetCall(t, to, FALSE)
    /\ UNCHANGED <<elapsed, remaining>>

\* `with pool.reserve(timeout=...)`: resource = self.get(timeout=timeout)
Reserve(t, to) ==
    /\ GetCall(t, to, TRUE)
    /\ UNCHANGED <<elapsed, remaining>>

\* who can run out of time: a blocked wait with a timeout, whose
\* waiter.acquire(True, timeout) then returns False with the waiter still in
\* _waiters; and a notified Queue.get, whose deadline (endtime) may pass
\* before it has the mutex again.  A notified Condition.wait returns True.
CanExpire(t) ==
    /\ timed[t]
    /\ \/ pc[t] = "waiting"
       \/ ~Lazy /\ pc[t] = "notified"

\* the timeout of a pending get expires
WaitTimeout(t) ==
    /\ CanExpire(t)
    /\ pc' = [pc EXCEPT ![t] = "timedout"]
    /\ solo' = SoloKeep(t)
    /\ UNCHANGED <<kind, pool_size, pool, used_size, lock, waiters, timed,
                   res, result, instances, elapsed, remaining>>

\* wait() re-acquires the lock and returns; get goes on
Resume(t, sc) ==
    /\ pc[t] \in {"notified", "timedout"}
    /\ lock = 0
    /\ IF Lazy THEN LazyPool_wake(t, sc) ELSE Pool_wake(t, sc)
    /\ solo' = SoloKeep(t)
    /\ UNCHANGED <<kind, pool_size>>

\* the same, time not kept
Wake(t, sc) ==
    /\ Resume(t, sc)
    /\ UNCHANGED <<elapsed, remaining>>

\* factory() returns a new resource; get returns it and releases the lock
FactoryReturn(t, sc) ==
    /\ pc[t] = "factory"
    /\ instances' = instances + 1
    /\ res' = [res EXCEPT ![t] = instances + 1]
    /\ pc' = [pc EXCEPT ![t] = After(sc)]
    /\ result' = [result EXCEPT ![t] = "ok"]
    /\ lock' = 0
    /\ solo' = SoloKeep(t)
    /\ UNCHANGED <<kind, pool_size, pool, used_size, waiters, timed,
                   elapsed, remaining>>

\* mutant: a failed factory call gives its slot of the created count back
FactoryRaise_rollback(t) ==
    /\ pc[t] = "factory"
    /\ pc' = [pc EXCEPT ![t] = "idle"]
    /\ result' = [result EXCEPT ![t] = "FactoryError"]
    /\ lock' = 0
    /\ used_size' = used_size - 1
    /\ solo' = SoloKeep(t)
    /\ UNCHANGED <<kind, pool_size, pool, waiters, timed, res, instances,
                   elapsed, remaining>>

\* factory() raises: the error leaves get, the lock is released
FactoryRaise(t) ==
    /\ pc[t] = "factory"
    /\ pc' = [pc EXCEPT ![t] = "idle"]
    /\ result' = [result EXCEPT ![t] = "FactoryError"]
    /\ lock' = 0
    /\ solo' = SoloKeep(t)
    /\ UNCHANGED <<kind, pool_size, pool, used_size, waiters, timed, res,
                   instances, elapsed, remaining>>

----------------------------------------------------------------------------
(* put, discard *)

\* mutant: the full test is off by one
LazyPool_full_late == Len(pool) = pool_size + 1

\* `len(self._pool) == self._pool_size`
LazyPool_full == Len(pool) = pool_size

\* Queue.put_nowait: maxsize > 0 and qsize() >= maxsize
Pool_full == pool_size > 0 /\ Len(pool) >= pool_size

Full == IF Lazy THEN LazyPool_full ELSE Pool_full

\* mutant: put does not append
Appended_not(r) == pool

\* the idle collection after put appended r
Appended(r) == Append(pool, r)

\* put(r) by thread t; ok is what the caller's call ends with if put returns
put(t, r, ok) ==
    /\ lock = 0
    /\ IF Full
       THEN /\ pool' = pool
            /\ waiters' = waiters
            /\ pc' = [pc EXCEPT ![t] = "idle"]
            /\ result' = [result EXCEPT ![t] = "PoolFull"]
       ELSE /\ pool' = Appended(r)
            /\ waiters' = NotifyWaiters
            /\ pc' = [NotifyPc EXCEPT ![t] = "idle"]
            /\ result' = [result EXCEPT ![t] = ok]
    /\ res' = [res EXCEPT ![t] = 0]
    /\ solo' = SoloKeep(t)
    /\ UNCHANGED <<kind, pool_size, used_size, lock, timed, instances,
                   elapsed, remaining>>

\* mutant: discard leaves the created count as it is
Discarded_not == used_size

\* mutant: discard subtracts without a floor
Discarded_unfloored == used_size - 1

\* `self._used_size = max(0, self._used_size - 1)`
Discarded == IF used_size - 1 > 0 THEN used_size - 1 ELSE 0

\* discard(r) by thread t; a caller discards while fewer than MaxInstances
\* resources exist or can still be created
discard(t) ==
    /\ Lazy
    /\ lock = 0
    /\ instances + (pool_size - used_size) < MaxInstances
    /\ used_size' = Discarded
    /\ waiters' = NotifyWaiters
    /\ pc' = [NotifyPc EXCEPT ![t] = "idle"]
    /\ result' = [result EXCEPT ![t] = "ok"]
    /\ res' = [res EXCEPT ![t] = 0]
    /\ solo' = <<0, 0>>
    /\ UNCHANGED <<kind, pool_size, pool, lock, timed, instances, elapsed,
                   remaining>>

\* a caller puts back the resource it holds
Put(t) ==
    /\ pc[t] = "holding"
    /\ put(t, res[t], "ok")

\* a caller discards the resource it holds
Discard(t) ==
    /\ pc[t] = "holding"
    /\ discard(t)

\* what reserve's caller sees once the block is left and put has returned
ExitResult(how) == IF how = "raise" THEN "Error" ELSE "ok"

\* mutant: reserve without `finally`: an error in the block skips the put
ReserveExit_no_finally(t, how) ==
    /\ pc[t] = "inblock"
    /\ IF how = "raise"
       THEN /\ lock = 0
            /\ pc' = [pc EXCEPT ![t] = "idle"]
            /\ result' = [result EXCEPT ![t] = "Error"]
            /\ res' = [res EXCEPT ![t] = 0]
            /\ solo' = SoloKeep(t)
            /\ UNCHANGED <<kind, pool_size, pool, used_size, lock, waiters,
                           timed, instances, elapsed, remaining>>
       ELSE put(t, res[t], "ok")

\* the reserve block is left, by return or by an error of the caller's work:
\* `finally: self.put(resource)`
ReserveExit(t, how) ==
    /\ pc[t] = "inblock"
    /\ put(t, res[t], ExitResult(how))

Exits == {"return", "raise"}

----------------------------------------------------------------------------
Next ==
    \E t \in Threads :
        \/ \E to \in BOOLEAN : Get(t, to)
        \/ \E to \in BOOLEAN : Reserve(t, to)
        \/ WaitTimeout(t)
        \/ \E sc \in BOOLEAN : Wake(t, sc)
        \/ \E sc \in BOOLEAN : FactoryReturn(t, sc)
        \/ FactoryRaise(t)
        \/ Put(t)
        \/ Discard(t)
        \/ \E how \in Exits : ReserveExit(t, how)

Spec == Init /\ [][Next]_vars

----------------------------------------------------------------------------
(* Properties *)

Borrowed == {t \in Threads : pc[t] \in Leased}

Idle == {pool[i] : i \in 1..Len(pool)}

\* C1: capacity invariant: with callers that release or discard only what
\* they hold, idle count + borrowed count <= pool_size in every state, for
\* both pool types.
C1_Capacity == Len(pool) + Cardinality(Borrowed) <= pool_size

\* a LazyPool filled to capacity with an idle and a borrowed resource
C1_Witness ==
    /\ Lazy
    /\ Len(pool) >= 1
    /\ Cardinality(Borrowed) >= 1
    /\ Len(pool) + Cardinality(Borrowed) = pool_size

\* C2: exclusive handout: no resource is held by two callers, and no
\* resource is idle and held at once.
C2_Exclusive ==
    /\ \A t \in Borrowed : res[t] # 0 /\ res[t] \notin Idle
    /\ \A t, u \in Borrowed : t # u => res[t] # res[u]

\* two callers hold different resources out of three that were created
C2_Witness ==
    \E t, u \in Borrowed : t # u /\ res[t] < res[u] /\ instances > 2

----------------------------------------------------------------------------
(* N callers that each run one `with pool.reserve(timeout=...)` block, no  *)
(* timeout expiring.  Every thread is scheduled, every block is left.      *)

NotStarted(t) == pc[t] = "idle" /\ result[t] = "none"

Cycled(t) == pc[t] = "idle" /\ result[t] \in {"ok", "Error"}

ReserveOnce(t) == NotStarted(t) /\ \E to \in BOOLEAN : Reserve(t, to)

LeaveBlock(t) == \E how \in Exits : ReserveExit(t, how)

NextReserve ==
    \E t \in Threads :
        \/ ReserveOnce(t)
        \/ Wake(t, TRUE)
        \/ FactoryReturn(t, TRUE)
        \/ LeaveBlock(t)

SpecReserve ==
    /\ Init
    /\ [][NextReserve]_vars
    /\ \A t \in Threads :
          /\ WF_vars(ReserveOnce(t))
          /\ WF_vars(Wake(t, TRUE))
          /\ WF_vars(FactoryReturn(t, TRUE))
          /\ WF_vars(LeaveBlock(t))

\* C3: bounded growth under contention: NThreads > pool_size callers each
\* run one reserve cycle; every cycle completes, the factory is never called
\* more than pool_size times, and it has been called pool_size times once
\* pool_size callers hold a resource at the same time.
C3_BoundedGrowth ==
    /\ [](instances <= pool_size)
    /\ [](Cardinality(Borrowed) = pool_size => instances = pool_size)
    /\ <>(\A t \in Threads : Cycled(t))

\* a LazyPool that started empty has all its resources lent to reserve
\* blocks while another caller is blocked in get
C3_Witness ==
    /\ Lazy
    /\ pool_size > 1
    /\ Cardinality(Borrowed) = pool_size
    /\ instances = pool_size
    /\ \E t \in Threads : pc[t] = "waiting"

----------------------------------------------------------------------------
(* Callers that get and discard but never put.  wait() returns once it can *)
(* have the lock, and factory() returns.                                   *)

NextDiscard ==
    \E t \in Threads :
        \/ \E to \in BOOLEAN : Get(t, to)
        \/ WaitTimeout(t)
        \/ Wake(t, FALSE)
        \/ FactoryReturn(t, FALSE)
        \/ Discard(t)

SpecDiscard ==
    /\ Init
    /\ [][NextDiscard]_vars
    /\ \A t \in Threads :
          /\ WF_vars(Wake(t, FALSE))
          /\ WF_vars(FactoryReturn(t, FALSE))

\* t is the only caller inside a get
OnlyGetter(t) == \A u \in Threads \ {t} : pc[u] \notin InCall

\* t holds the resource the factory made last
Fresh(t) == pc[t] = "holding" /\ res[t] = instances

----------------------------------------------------------------------------
\* C5: no lost wake-up: a LazyPool get never stays blocked while the idle
\* list is non-empty: whenever a get is blocked and a resource is idle, some
\* get has been woken and is on its way to take it.
C5_NoLostWakeup ==
    \A t \in Threads :
        (Lazy /\ pc[t] = "waiting" /\ pool # <<>>)
        => \E u \in Threads : pc[u] \in {"notified", "factory"}

----------------------------------------------------------------------------
(* Callers that get and never give anything back.  Time passes: a pending  *)
(* timeout expires.                                                        *)

NextNoRelease ==
    \E t \in Threads :
        \/ \E to \in BOOLEAN : Get(t, to)
        \/ WaitTimeout(t)
        \/ Wake(t, FALSE)
        \/ FactoryReturn(t, FALSE)

SpecNoRelease ==
    /\ Init
    /\ [][NextNoRelease]_vars
    /\ \A t \in Threads :
          /\ WF_vars(WaitTimeout(t))
          /\ WF_vars(Wake(t, FALSE))
          /\ WF_vars(FactoryReturn(t, FALSE))

TimedOut(t) == pc[t] = "idle" /\ result[t] = "PoolTimeout"

\* C6: timeout correctness: with every resource of the pool taken and no
\* put or discard, a get with a numeric timeout that blocks ends by raising
\* PoolTimeout: it does not return a resource and does not block forever.
C6_TimeoutCorrect ==
    /\ [][\A t \in Threads :
            (pc[t] \in {"waiting", "timedout"} /\ pc'[t] # pc[t])
            => (pc'[t] = "timedout" \/ TimedOut(t)')]_vars
    /\ \A t \in Threads : (pc[t] = "waiting" /\ timed[t]) ~> TimedOut(t)

\* pool_size = 1, one get took the resource, a second get raised PoolTimeout
C6_Witness ==
    \E t, u \in Threads :
        /\ Lazy
        /\ pool_size = 1
        /\ pc[u] = "holding"
        /\ TimedOut(t)

----------------------------------------------------------------------------
\* C7: a get that fails with PoolTimeout leaves the pool state unchanged:
\* none of the steps of such a call (starting to wait, the timeout expiring,
\* raising PoolTimeout) changes the idle collection, the created count or
\* the capacity.
C7_TimeoutFrame ==
    [][\A t \in Threads :
          (/\ pc'[t] # pc[t]
           /\ \/ pc'[t] \in {"waiting", "timedout"}
              \/ TimedOut(t)')
          => UNCHANGED <<pool, used_size, pool_size>>]_vars

\* a get raised PoolTimeout while another caller holds a resource
C7_Witness ==
    \E t, u \in Threads : TimedOut(t) /\ pc[u] \in Leased

----------------------------------------------------------------------------
(* Callers that get and put, and that also put an object they never        *)
(* borrowed, as in `pool.put({})`: resource 0, which no factory call made. *)

RoguePut(t) ==
    /\ pc[t] = "idle"
    /\ put(t, 0, "ok")

NextOverRelease ==
    \E t \in Threads :
        \/ Get(t, FALSE)
        \/ Wake(t, FALSE)
        \/ FactoryReturn(t, FALSE)
        \/ Put(t)
        \/ RoguePut(t)

SpecOverRelease == Init /\ [][NextOverRelease]_vars

\* C8: full on over-release: put raises PoolFull exactly when the idle set
\* holds pool_size resources at the time of the call, and then leaves the
\* idle set and the created count unchanged; otherwise it appends the
\* resource and the idle count grows by one.  Both pool types.
C8_FullOnOverRelease ==
    [][\A t \in Threads : \A r \in 0..instances :
          put(t, r, "ok")
          => /\ (result'[t] = "PoolFull") <=> (Len(pool) = pool_size)
             /\ IF Len(pool) = pool_size
                THEN pool' = pool /\ used_size' = used_size
                ELSE /\ pool' = Append(pool, r)
                     /\ Len(pool') = Len(pool) + 1
                     /\ used_size' = used_size]_vars

\* a put on a full pool raised PoolFull
C8_Witness ==
    \E t \in Threads :
        pc[t] = "idle" /\ result[t] = "PoolFull" /\ Len(pool) = pool_size

----------------------------------------------------------------------------
\* thread t called get with no other call pending and then put the resource
\* back (directly or by leaving a reserve block), no other thread stepping
RoundTrip(t) == solo[1] = t /\ pc[t] = "idle" /\ result[t] \in {"ok", "Error"}

\* C9 as stated: a get followed by a put of the returned resource restores
\* the idle count to its value before the get, in every pool state in which
\* the get succeeds.
C9_RoundTripRestores ==
    \A t \in Threads : RoundTrip(t) => Len(pool) = solo[2]

\* C9 as amended: the idle count is restored when the get took an idle
\* resource; when the idle list was empty and the get created a resource,
\* the idle count is 1 after the put.
C9_RoundTrip ==
    \A t \in Threads :
        RoundTrip(t) => Len(pool) = IF solo[2] = 0 THEN 1 ELSE solo[2]

\* a round trip on a LazyPool with an idle resource, others holding
C9_Witness ==
    \E t \in Threads :
        /\ RoundTrip(t)
        /\ Lazy
        /\ solo[2] >= 1
        /\ \E u \in Threads : pc[u] \in Leased

\* C10: scoped acquisition releases on every exit path: when a reserve block
\* is left, by return or by an error of the caller's work, put is called on
\* the resource get returned: it is appended to the idle collection, whose
\* count is one more than inside the block.
C10_ReserveReleases ==
    [][\A t \in Threads :
          (pc[t] = "inblock" /\ pc'[t] # "inblock")
          => /\ pool' = Append(pool, res[t])
             /\ Len(pool') = Len(pool) + 1
             /\ pc'[t] = "idle"]_vars

\* a reserve block was left by an error and its resource is idle again
C10_Witness ==
    \E t \in Threads :
        pc[t] = "idle" /\ result[t] = "Error" /\ pool # <<>>

----------------------------------------------------------------------------
(* Non-overlapping get/put cycles, as in                                    *)
(* test_can_reserve_elements_from_a_lazy_pool: a caller starts a get or a   *)
(* reserve only when no other caller is inside a call or holds a resource,  *)
(* and the counting factory returns.                                        *)

Alone(t) == \A u \in Threads \ {t} : pc[u] = "idle"

NextCycles ==
    \E t \in Threads :
        \/ Alone(t) /\ \E to \in BOOLEAN : Get(t, to)
        \/ Alone(t) /\ \E to \in BOOLEAN : Reserve(t, to)
        \/ \E sc \in BOOLEAN : FactoryReturn(t, sc)
        \/ Put(t)
        \/ \E how \in Exits : ReserveExit(t, how)

\* LazyPool(factory, pool_size=n): min_instances defaults to 0
InitOnDemand == Init /\ LazyPool_init(pool_size, 0)

SpecOnDemand == InitOnDemand /\ [][NextCycles]_vars

\* no call has been made on the pool since its construction
Untouched == \A t \in Threads : NotStarted(t)

\* some get/put cycle has completed
SomeCycled == \E t \in Threads : Cycled(t)

\* C11: lazy on-demand creation: a LazyPool constructed with min_instances =
\* 0 has called the factory zero times after construction; the first get
\* calls it exactly once; a get made while the idle list is non-empty returns
\* an idle resource without calling the factory; so after any number of
\* non-overlapping get/put cycles the factory has been called exactly once.
C11_OnDemand ==
    /\ [](Untouched => instances = 0 /\ pool = <<>>)
    /\ [][\A t \in Threads :
            (Untouched /\ pc'[t] # "idle") => pc'[t] = "factory"]_vars
    /\ [][\A t \in Threads :
            (pc[t] = "factory" /\ pc'[t] # "factory")
            => (instances = 0 /\ instances' = 1 /\ res'[t] = 1)]_vars
    /\ [][\A t \in Threads :
            (pc[t] = "idle" /\ pc'[t] # "idle" /\ pool # <<>>)
            => /\ pc'[t] \in Leased
               /\ res'[t] \in Idle
               /\ instances' = instances]_vars
    /\ [](SomeCycled => instances = 1)

\* three cycles have completed on a pool of two and another is under way,
\* holding the one resource that was ever created
C11_Witness ==
    /\ pool_size > 1
    /\ instances = 1
    /\ \A t \in Threads : pc[t] \in Leased \/ Cycled(t)
    /\ \E t \in Threads : pc[t] \in Leased /\ res[t] = 1 /\ result[t] = "ok"

----------------------------------------------------------------------------
(* Non-overlapping cycles on a pool constructed with any min_instances, as  *)
(* in test_lazy_pools_can_preload_resources.                                *)

SpecCycles == Init /\ [][NextCycles]_vars

\* C12: preloading: a LazyPool constructed with min_instances = m <
\* pool_size has called the factory exactly m times, and its initial state
\* has idle count m and created count m; a following get takes one of the
\* preloaded resources, leaving m - 1 idle, without a further factory call.
C12_Preloading ==
    /\ [](Lazy /\ Untouched
          => \E m \in 0..(pool_size - 1) :
                /\ instances = m
                /\ Len(pool) = m
                /\ used_size = m
                /\ Idle = 1..m)
    /\ [][\A t \in Threads :
            (Lazy /\ Untouched /\ pool # <<>> /\ pc'[t] # "idle")
            => /\ pc'[t] \in Leased
               /\ res'[t] \in Idle
               /\ Len(pool') = Len(pool) - 1
               /\ used_size' = used_size
               /\ instances' = instances]_vars

\* the first get on a preloaded pool has returned a preloaded resource
C12_Witness ==
    \E t \in Threads :
        /\ Lazy
        /\ pc[t] \in Leased
        /\ \A u \in Threads \ {t} : NotStarted(u)
        /\ instances >= 1
        /\ res[t] \in 1..instances
        /\ Len(pool) = instances - 1
        /\ used_size = instances

----------------------------------------------------------------------------
\* C13: resource creation never blocks other pool operations: while a
\* LazyPool get is executing factory() in its create branch, the pool lock
\* is not held, so that a concurrent put, discard or get can take it.
C13_FactoryOutsideLock ==
    \A t \in Threads : pc[t] = "factory" => lock = 0

----------------------------------------------------------------------------
(* Callers that get and put while time is kept for the get that has a      *)
(* timeout: one caller at a time calls get(timeout=Timeout), the others     *)
(* call get().  A tick is one unit of time passing for the pending get with *)
(* a timeout; the timer of a wait fires when none of its time is left.      *)

\* pool.get(timeout=Timeout) if to, else pool.get()
TimedGet(t, to) ==
    /\ to => \A u \in Threads : ~timed[u]
    /\ GetCall(t, to, FALSE)
    /\ elapsed' = IF to THEN 0 ELSE elapsed
    /\ remaining' = Timer(t, Timeout)

\* wait() returns and get goes on, waiting again if it has to
TimedWake(t) ==
    /\ Resume(t, FALSE)
    /\ remaining' = Timer(t, Armed)
    /\ UNCHANGED elapsed

\* elapsed is counted up to "more than the timeout"
Over == Timeout + 1

Later(e) == IF e < Over THEN e + 1 ELSE Over

Tick(t) ==
    /\ CanExpire(t)
    /\ remaining > 0
    /\ remaining' = remaining - 1
    /\ elapsed' = Later(elapsed)
    /\ UNCHANGED <<kind, pool_size, pool, used_size, lock, waiters, pc, timed,
                   res, result, instances, solo>>

Expire(t) ==
    /\ remaining = 0
    /\ WaitTimeout(t)

NextClock ==
    \E t \in Threads :
        \/ \E to \in BOOLEAN : TimedGet(t, to)
        \/ Tick(t)
        \/ Expire(t)
        \/ TimedWake(t)
        \/ FactoryReturn(t, FALSE)
        \/ Put(t)

SpecClock == Init /\ [][NextClock]_vars

\* C14: overall timeout: a LazyPool get called with a numeric timeout
\* measures it from the start of the call, not per wait: across any number
\* of wake-ups that find the idle list empty, the total time the call stays
\* blocked before it returns or raises PoolTimeout never exceeds the timeout.
C14_OverallTimeout == Lazy => elapsed <= Timeout

----------------------------------------------------------------------------
(* Callers that use get, put and discard directly.  reserve adds nothing to *)
(* what get does: it is a get followed by a put.                            *)

NextDirect ==
    \E t \in Threads :
        \/ \E to \in BOOLEAN : Get(t, to)
        \/ WaitTimeout(t)
        \/ Wake(t, FALSE)
        \/ FactoryReturn(t, FALSE)
        \/ FactoryRaise(t)
        \/ Put(t)
        \/ Discard(t)

SpecDirect == Init /\ [][NextDirect]_vars

\* C15: LazyPool get waits only when the idle list is empty and the created
\* count equals pool_size: whenever get evaluates its loop condition (at the
\* call, or after a wait that was notified) with a non-empty idle list it
\* returns an idle resource without waiting, and whenever the idle list is
\* empty and the created count is below pool_size it adds one to the
\* created count and returns a new factory resource without waiting.
C15_WaitsOnlyAtCapacity ==
    /\ [][\A t \in Threads :
            (Lazy /\ pc[t] \in {"idle", "notified"} /\ pc'[t] # pc[t])
            => /\ pc'[t] = "waiting" <=> (pool = <<>> /\ used_size = pool_size)
               /\ pool # <<>>
                  => /\ pc'[t] \in Leased
                     /\ res'[t] \in Idle
                     /\ used_size' = used_size
                     /\ instances' = instances
               /\ (pool = <<>> /\ used_size < pool_size)
                  => /\ pc'[t] = "factory"
                     /\ used_size' = used_size + 1]_vars
    /\ [][\A t \in Threads :
            (pc[t] = "factory" /\ pc'[t] # "factory" /\ result'[t] = "ok")
            => /\ pc'[t] \in Leased
               /\ instances' = instances + 1
               /\ res'[t] = instances'
               /\ used_size' = used_size]_vars

\* one get waits on a LazyPool at capacity while another, which was woken
\* after a discard, is in the create branch
C15_Witness ==
    \E t, u \in Threads :
        /\ Lazy
        /\ pc[t] = "waiting"
        /\ pc[u] = "factory"
        /\ pool = <<>>
        /\ used_size = pool_size
        /\ instances >= pool_size

----------------------------------------------------------------------------
\* C16: LIFO idle order: when the LazyPool idle list is non-empty, get
\* returns the resource that was put most recently among those idle, for
\* every sequence of puts and gets: a put places its resource after all the
\* resources already idle and leaves their order as it is, and a get takes
\* the last resource of the list and leaves the order of the others as it is.
C16_Lifo ==
    /\ [][(Lazy /\ Len(pool') > Len(pool))
          => /\ Len(pool') = Len(pool) + 1
             /\ SubSeq(pool', 1, Len(pool)) = pool]_vars
    /\ [][\A t \in Threads :
            (Lazy /\ pc[t] \notin Leased /\ pc'[t] \in Leased /\ pool # <<>>)
            => /\ res'[t] = pool[Len(pool)]
               /\ pool' = SubSeq(pool, 1, Len(pool) - 1)]_vars

\* the object that was put on top of the preloaded resource has been taken
\* again, the preloaded resource is still idle, and nothing else was created
C16_Witness ==
    \E t \in Threads :
        /\ Lazy
        /\ pc[t] = "holding"
        /\ res[t] = 0
        /\ pool = <<1>>
        /\ instances = 1
        /\ \A u \in Threads \ {t} : pc[u] = "idle"

----------------------------------------------------------------------------
\* every slot of the created count was used up by a factory call that failed
Burnt == Lazy /\ instances = 0 /\ used_size = pool_size /\ pool = <<>>

\* C17: a factory failure in the create branch of LazyPool get reaches the
\* caller and leaves the created count incremented with no resource to show
\* for it; the count is not rolled back, so that after pool_size failures
\* with an empty idle list every later get waits, and stays blocked until
\* it times out or a put or discard occurs.
C17_FactoryFailure ==
    /\ [][\A t \in Threads :
            (pc[t] = "factory" /\ result'[t] = "FactoryError")
            => /\ pc'[t] = "idle"
               /\ res'[t] = 0
               /\ used_size >= 1
               /\ used_size' = used_size
               /\ instances' = instances
               /\ pool' = pool]_vars
    /\ [][\A t \in Threads :
            (/\ Lazy
             /\ pool = <<>>
             /\ used_size = pool_size
             /\ pc[t] = "idle"
             /\ pc'[t] # "idle")
            => pc'[t] = "waiting"]_vars
    /\ [][\A t \in Threads :
            (Lazy /\ pc[t] = "waiting" /\ pc'[t] \notin {"waiting", "timedout"})
            => (used_size' < used_size \/ Len(pool') > Len(pool))]_vars

\* a pool of two whose factory failed twice: one get has timed out, another
\* is blocked
C17_Witness ==
    \E t, u \in Threads :
        /\ Burnt
        /\ pool_size > 1
        /\ pc[t] = "waiting"
        /\ TimedOut(u)
        /\ \E v \in Threads : result[v] = "FactoryError"

----------------------------------------------------------------------------
\* C19: PoolTimeout is raised only when nothing is available: at the moment
\* a LazyPool get raises PoolTimeout, holding the lock again after its wait
\* expired, the idle list is empty and the created count equals pool_size,
\* also when a put or discard happened concurrently with the expiry.
C19_TimeoutOnlyWhenEmpty ==
    [][\A t \in Threads :
          (Lazy /\ pc[t] = "timedout" /\ TimedOut(t)')
          => (pool = <<>> /\ used_size = pool_size)]_vars

----------------------------------------------------------------------------
(* Any use of the pool: besides the calls of disciplined callers, one       *)
(* caller also puts an object that was never borrowed and discards while it *)
(* holds nothing (discard does not look at its argument).  No get has a     *)
(* timeout.                                                                 *)

Misuser == 1

RogueDiscard(t) ==
    /\ pc[t] = "idle"
    /\ discard(t)

NextAnyUse ==
    \E t \in Threads :
        \/ Get(t, FALSE)
        \/ Wake(t, FALSE)
        \/ FactoryReturn(t, FALSE)
        \/ FactoryRaise(t)
        \/ Put(t)
        \/ Discard(t)
        \/ t = Misuser /\ RoguePut(t)
        \/ t = Misuser /\ RogueDiscard(t)

SpecAnyUse == Init /\ [][NextAnyUse]_vars

\* C18: effect of discard: LazyPool discard(r) sets the created count to
\* max(0, created count - 1), wakes one waiter (the first of _waiters), and
\* leaves the idle list and pool_size unchanged; it does not reinsert r and
\* does not check that r is borrowed, so a discard called when the created
\* count is 0 leaves it at 0.
C18_DiscardEffect ==
    [][\A t \in Threads :
          discard(t)
          => /\ used_size' = IF used_size = 0 THEN 0 ELSE used_size - 1
             /\ pool' = pool
             /\ pool_size' = pool_size
             /\ waiters' = IF waiters = <<>> THEN <<>> ELSE Tail(waiters)
             /\ \A u \in Threads \ {t} :
                   pc'[u] = IF /\ waiters # <<>>
                               /\ u = Head(waiters)
                               /\ pc[u] = "waiting"
                            THEN "notified"
                            ELSE pc[u]]_vars

\* a caller that holds nothing has discarded on a pool whose created count
\* was 0: nothing was ever created or put, and the count is still 0
C18_Witness ==
    /\ Lazy
    /\ pc[Misuser] = "idle"
    /\ result[Misuser] = "ok"
    /\ used_size = 0
    /\ instances = 0
    /\ pool = <<>>
    /\ \A u \in Threads \ {Misuser} : NotStarted(u)

\* C20: counter bounds under any use: in every reachable state of a
\* LazyPool, for any sequence and interleaving of get, put, discard and
\* reserve calls, puts of resources never borrowed and discards of resources
\* not held included, 0 <= created count <= pool_size and 0 <= idle count
\* <= pool_size.
C20_CounterBounds ==
    Lazy => /\ 0 <= used_size
            /\ used_size <= pool_size
            /\ 0 <= Len(pool)
            /\ Len(pool) <= pool_size

\* more resources are out than pool_size, after discards by a caller that
\* held nothing, and the created count is back at pool_size
C20_Witness ==
    /\ Lazy
    /\ Cardinality(Borrowed) > pool_size
    /\ used_size = pool_size
    /\ pool = <<>>
    /\ pc[Misuser] = "idle"

====
